---- MODULE Spec2Model ----
(***************************************************************************)
(* A model of src/sagemaker/processor.py: Processor, ScriptModeProcessor,  *)
(* ProcessingJob, FileInput and FileOutput.                                *)
(*                                                                         *)
(* Python values are modelled as follows.                                  *)
(*   - a str is a sequence of one-character strings: "s3" is <<"s","3">>;  *)
(*   - None is the one-element sequence <<"None">>, which is no str since  *)
(*     its element has more than one character;                            *)
(*   - an enum member is the one-element sequence of its qualified name,   *)
(*     its .value is given by EnumValue;                                   *)
(*   - any other object is a pair <<class name, content>>. The content of  *)
(*     a FileInput, a FileOutput or a list the caller owns is a reference  *)
(*     into the heap of that class (a sequence indexed by references), so  *)
(*     that a mutation is seen through every alias. The content of a list  *)
(*     the code never mutates (ListOf) is the sequence of its elements;    *)
(*   - a dict is a function whose DOMAIN is the set of its keys.           *)
(* An exception is a TLA+ string naming its class and raise site; NoErr    *)
(* stands for normal completion.                                           *)
(***************************************************************************)
EXTENDS Integers, Sequences, FiniteSets, TLC

(***************************************************************************)
(* Python str helpers.                                                     *)
(***************************************************************************)
None == <<"None">>

SEP == "/"

\* str.startswith(sep)
StartsWithSep(s) == Len(s) > 0 /\ s[1] = SEP

\* str.endswith(sep)
EndsWithSep(s) == Len(s) > 0 /\ s[Len(s)] = SEP

\* str.rfind(c) + 1: the 1-based index of the last c in s, 0 when there is none
RFind(s, c) ==
    LET hits == {i \in 1..Len(s) : s[i] = c}
    IN  IF hits = {} THEN 0 ELSE CHOOSE i \in hits : \A j \in hits : j <= i

\* str.find(c) + 1: the 1-based index of the first c in s, 0 when there is none
Find(s, c) ==
    LET hits == {i \in 1..Len(s) : s[i] = c}
    IN  IF hits = {} THEN 0 ELSE CHOOSE i \in hits : \A j \in hits : i <= j

\* s[i:] of Python with i 0-based, i.e. the suffix after the first i characters
Suffix(s, i) == SubSeq(s, i + 1, Len(s))

\* str.lower() on the characters the model uses
LowerChar(c) == IF c = "S" THEN "s" ELSE c

Lower(s) == [i \in 1..Len(s) |-> LowerChar(s[i])]

\* urllib.parse: the characters a scheme may hold
SchemeChars == {"s", "S", "3", "a", "b", "c", "d", "f", "h", "p", "r", "t", "x", "y", "+", "-", "."}

(***************************************************************************)
(* posixpath.join(a, *p): an absolute component discards what precedes it, *)
(* a separator is inserted unless the path so far is empty or ends in one. *)
(***************************************************************************)
JoinTwo(path, b) ==
    IF StartsWithSep(b) THEN b
    ELSE IF Len(path) = 0 \/ EndsWithSep(path) THEN path \o b
    ELSE path \o <<SEP>> \o b

RECURSIVE JoinFrom(_, _, _)
JoinFrom(path, parts, k) ==
    IF k > Len(parts) THEN path ELSE JoinFrom(JoinTwo(path, parts[k]), parts, k + 1)

OsPathJoin(parts) == JoinFrom(parts[1], parts, 2)

\* posixpath.basename(p): what follows the last separator
OsPathBasename(p) == Suffix(p, RFind(p, SEP))

(***************************************************************************)
(* posixpath.splitext(p)[1]: the extension starts at the last dot of the   *)
(* final path segment, unless only dots precede that dot in the segment.   *)
(***************************************************************************)
OsPathSplitextExt(p) ==
    LET sepIndex == RFind(p, SEP)
        dotIndex == RFind(p, ".")
    IN  IF dotIndex > sepIndex
           /\ \E i \in (sepIndex + 1)..(dotIndex - 1) : p[i] # "."
        THEN Suffix(p, dotIndex - 1)
        ELSE <<>>

(***************************************************************************)
(* urlparse(url).scheme: the text before the first colon, lower-cased,     *)
(* when that text is non-empty and holds scheme characters only.           *)
(***************************************************************************)
UrlScheme(url) ==
    LET i == Find(url, ":")
    IN  IF i > 1 /\ \A k \in 1..(i - 1) : url[k] \in SchemeChars
        THEN Lower(SubSeq(url, 1, i - 1))
        ELSE <<>>

IsS3(url) == UrlScheme(url) = <<"s", "3">>


(***************************************************************************)
(* "{}".format(n) for a non-negative integer n.                            *)
(***************************************************************************)
DigitChar(d) ==
    CASE d = 0 -> "0" [] d = 1 -> "1" [] d = 2 -> "2" [] d = 3 -> "3" [] d = 4 -> "4"
      [] d = 5 -> "5" [] d = 6 -> "6" [] d = 7 -> "7" [] d = 8 -> "8" [] d = 9 -> "9"

RECURSIVE FormatInt(_)
FormatInt(n) == IF n < 10 THEN <<DigitChar(n)>> ELSE FormatInt(n \div 10) \o <<DigitChar(n % 10)>>

(***************************************************************************)
(* String literals of the source.                                          *)
(***************************************************************************)
S3Root == <<"s", "3", ":", "/", "/">>
StrInputDash == <<"i", "n", "p", "u", "t", "-">>
StrOutputDash == <<"o", "u", "t", "p", "u", "t", "-">>
StrOutput == <<"o", "u", "t", "p", "u", "t">>
CODE_CONTAINER_BASE_PATH == <<"/", "c", "o", "d", "e", "/">>
CODE_CONTAINER_INPUT_NAME == <<"s", "o", "u", "r", "c", "e">>
ExtPy == <<".", "p", "y">>
ExtSh == <<".", "s", "h">>
Py3 == <<"p", "y", "3">>
Py2 == <<"p", "y", "2">>
Python3 == <<"p", "y", "t", "h", "o", "n", "3">>
Python2 == <<"p", "y", "t", "h", "o", "n", "2">>
Python == <<"p", "y", "t", "h", "o", "n">>
Bash == <<"b", "a", "s", "h">>

(***************************************************************************)
(* Enum members of sagemaker.s3 and their wire values (.value).            *)
(***************************************************************************)
S3CompressionType_NONE == <<"S3CompressionType.NONE">>
S3CompressionType_GZIP == <<"S3CompressionType.GZIP">>
S3InputMode_FILE == <<"S3InputMode.FILE">>
S3InputMode_PIPE == <<"S3InputMode.PIPE">>
S3DataType_MANIFEST_FILE == <<"S3DataType.MANIFEST_FILE">>
S3DownloadMode_CONTINUOUS == <<"S3DownloadMode.CONTINUOUS">>
S3DataDistributionType_FULLY_REPLICATED == <<"S3DataDistributionType.FULLY_REPLICATED">>
S3UploadMode_CONTINUOUS == <<"S3UploadMode.CONTINUOUS">>

EnumValue(e) ==
    CASE e = S3CompressionType_NONE -> <<"N", "o", "n", "e">>
      [] e = S3CompressionType_GZIP -> <<"G", "z", "i", "p">>
      [] e = S3InputMode_FILE -> <<"F", "i", "l", "e">>
      [] e = S3InputMode_PIPE -> <<"P", "i", "p", "e">>
      [] e = S3DataType_MANIFEST_FILE -> <<"M", "a", "n", "i", "f", "e", "s", "t", "F", "i", "l", "e">>
      [] e = S3DownloadMode_CONTINUOUS -> <<"C", "o", "n", "t", "i", "n", "u", "o", "u", "s">>
      [] e = S3DataDistributionType_FULLY_REPLICATED ->
            <<"F", "u", "l", "l", "y", "R", "e", "p", "l", "i", "c", "a", "t", "e", "d">>
      [] e = S3UploadMode_CONTINUOUS -> <<"C", "o", "n", "t", "i", "n", "u", "o", "u", "s">>

(***************************************************************************)
(* Exceptions, named by class and raise site.                              *)
(***************************************************************************)
NoErr == "NoErr"
TypeError_inputs == "TypeError: Your inputs must be provided as FileInput objects."
TypeError_join == "TypeError: os.path.join of None"
ValueError_no_script_name == "ValueError: You provided a directory without providing a script name."
ValueError_not_exist == "ValueError: The file or directory you specified does not exist."
ValueError_script_mode == "ValueError: Script Mode supports Python or Bash scripts."
ValueError_gzip == "ValueError: Data can only be gzipped when the input mode is Pipe."
AttributeError_append == "AttributeError: 'NoneType' object has no attribute 'append'"
NotImplementedError == "NotImplementedError"
UploadError == "UploadError"
ProcessError == "RemoteServiceError: process"
WaitError == "RemoteServiceError: wait"

(***************************************************************************)
(* FileInput and FileOutput: the constructors and to_request_dict. A       *)
(* to_request_dict returns [err, ret]: the exception raised, or NoErr and  *)
(* the request dictionary.                                                 *)
(***************************************************************************)
FileInput(source, destination, input_name, s3_input_mode, s3_compression_type) ==
    [source |-> source,
     destination |-> destination,
     input_name |-> input_name,
     s3_data_type |-> S3DataType_MANIFEST_FILE,
     s3_input_mode |-> s3_input_mode,
     s3_download_mode |-> S3DownloadMode_CONTINUOUS,
     s3_data_distribution_type |-> S3DataDistributionType_FULLY_REPLICATED,
     s3_compression_type |-> s3_compression_type]

\* to_request_dict without the check of the compression type
FileInput_to_request_dict_Unchecked(self) ==
    LET S3Input == [S3Uri |-> self.source,
                    LocalPath |-> self.destination,
                    S3DataType |-> EnumValue(self.s3_data_type),
                    S3InputMode |-> EnumValue(self.s3_input_mode),
                    S3DownloadMode |-> EnumValue(self.s3_download_mode),
                    S3DataDistributionType |-> EnumValue(self.s3_data_distribution_type)]
    IN  [err |-> NoErr,
         ret |-> [InputName |-> self.input_name,
                  S3Input |-> IF self.s3_compression_type # None
                              THEN S3Input @@ ("S3CompressionType" :>
                                       EnumValue(self.s3_compression_type))
                              ELSE S3Input]]

FileInput_to_request_dict(self) ==
    LET S3Input == [S3Uri |-> self.source,
                    LocalPath |-> self.destination,
                    S3DataType |-> EnumValue(self.s3_data_type),
                    S3InputMode |-> EnumValue(self.s3_input_mode),
                    S3DownloadMode |-> EnumValue(self.s3_download_mode),
                    S3DataDistributionType |-> EnumValue(self.s3_data_distribution_type)]
    IN  IF self.s3_compression_type = S3CompressionType_GZIP
           /\ self.s3_input_mode # S3InputMode_PIPE
        THEN [err |-> ValueError_gzip, ret |-> None]
        ELSE [err |-> NoErr,
              ret |-> [InputName |-> self.input_name,
                       S3Input |-> IF self.s3_compression_type # None
                                   THEN S3Input @@ ("S3CompressionType" :>
                                            EnumValue(self.s3_compression_type))
                                   ELSE S3Input]]

FileOutput(source, destination, output_name, kms_key_id) ==
    [source |-> source,
     destination |-> destination,
     output_name |-> output_name,
     kms_key_id |-> kms_key_id,
     s3_upload_mode |-> S3UploadMode_CONTINUOUS]

FileOutput_to_request_dict(self) ==
    LET S3Output == [S3Uri |-> self.destination,
                     LocalPath |-> self.source,
                     S3UploadMode |-> EnumValue(self.s3_upload_mode)]
    IN  [err |-> NoErr,
         ret |-> [OutputName |-> self.output_name,
                  S3Output |-> IF self.kms_key_id # None
                               THEN S3Output @@ ("KmsKeyId" :> self.kms_key_id)
                               ELSE S3Output]]

(***************************************************************************)
(* Objects: <<class name, content>>.                                       *)
(***************************************************************************)
FileInputRef(i) == <<"FileInput", i>>
FileOutputRef(i) == <<"FileOutput", i>>
ListRef(i) == <<"list", i>>
ListOf(elems) == <<"list", elems>>
NetworkConfig(dict) == <<"NetworkConfig", dict>>
ProcessingJob(job_name, inputs, outputs) ==
    <<"ProcessingJob", [job_name |-> job_name, inputs |-> inputs, outputs |-> outputs]>>

ClassNames == {"FileInput", "FileOutput", "list", "NetworkConfig", "ProcessingJob"}

IsObject(v) == Len(v) = 2 /\ v[1] \in ClassNames

\* isinstance(v, cls) for a class of this module
IsInstance(v, cls) == Len(v) = 2 /\ v[1] = cls

\* isinstance(v, string_types)
IsStr(v) == v # None /\ ~IsObject(v)

(***************************************************************************)
(* The environment: the session's default bucket, the local file system    *)
(* that os.path.isdir and os.path.isfile read, the image's base name.      *)
(***************************************************************************)
DefaultBucket == <<"b", "k", "t">>

LocalDirs == {<<"d">>}

LocalFiles == {<<"a", ".", "p", "y">>, <<"w", "/", "a", ".", "s", "h">>, <<"n", ".", "t", "x", "t">>}

OsPathIsdir(p) == p \in LocalDirs

OsPathIsfile(p) == p \in LocalFiles

\* sagemaker.utils.base_name_from_image(image_uri)
base_name_from_image(image_uri) == <<"i", "m", "g">>

\* sagemaker.utils.name_from_base(base): base, a dash and a timestamp; the
\* timestamp is the reading of a clock that every call advances.
name_from_base(base, clock) == base \o <<"-">> \o FormatInt(clock)

(***************************************************************************)
(* The machine a method runs on: the processor (self), the heaps, the      *)
(* clock, the calls made to the collaborators so far in this operation,    *)
(* and the exception in flight (NoErr when there is none). A method that   *)
(* returns a value yields [m, ret].                                        *)
(*                                                                         *)
(* orc is what the collaborators do during the operation: the ordinal of   *)
(* the upload that fails (0: none), whether an upload returns the desired  *)
(* URI itself or a key under it, whether process and wait fail.            *)
(***************************************************************************)
Raise(m, e) == [m EXCEPT !.err = e]

NumCalls(calls, op) == Cardinality({i \in 1..Len(calls) : calls[i].op = op})

\* S3Uploader.upload(local_path, desired_s3_uri, session)
S3Uploader_upload(m, local_path, desired_s3_uri, orc) ==
    LET fails == orc.uploadFailAt = NumCalls(m.calls, "upload") + 1
        s3_uri == IF fails THEN None
                  ELSE IF orc.uploadNests
                  THEN OsPathJoin(<<desired_s3_uri, OsPathBasename(local_path)>>)
                  ELSE desired_s3_uri
        m1 == [m EXCEPT !.calls = Append(@, [op |-> "upload",
                                              local_path |-> local_path,
                                              desired_s3_uri |-> desired_s3_uri,
                                              ret |-> s3_uri])]
    IN  [m |-> IF fails THEN Raise(m1, UploadError) ELSE m1, ret |-> s3_uri]

\* A name generated whether or not the caller gave one
_generate_current_job_name_Generated(m, job_name) ==
    LET self == m.processor
        base_name == IF self.base_job_name # None /\ self.base_job_name # <<>>
                     THEN self.base_job_name
                     ELSE base_name_from_image(self.image_uri)
    IN  [m |-> [m EXCEPT !.clock = @ + 1], ret |-> name_from_base(base_name, m.clock)]

\* Processor._generate_current_job_name
_generate_current_job_name(m, job_name) ==
    IF job_name # None
    THEN [m |-> m, ret |-> job_name]
    ELSE LET self == m.processor
             base_name == IF self.base_job_name # None /\ self.base_job_name # <<>>
                          THEN self.base_job_name
                          ELSE base_name_from_image(self.image_uri)
         IN  [m |-> [m EXCEPT !.clock = @ + 1], ret |-> name_from_base(base_name, m.clock)]

(***************************************************************************)
(* Processor._normalize_inputs: the loop body for the element at position  *)
(* count, then the rest of the list.                                       *)
(***************************************************************************)
\* "input-{}".format(count), with count 0-based
InputName_ZeroBased(count) == StrInputDash \o FormatInt(count - 1)

\* "input-{}".format(count)
InputName(count) == StrInputDash \o FormatInt(count)

\* The upload of one FileInput, with its source left at the desired URI
UploadInput_KeepsDesired(m, r, orc) ==
    LET self == m.fileInputs[r]
        desired_s3_uri == OsPathJoin(<<S3Root, DefaultBucket,
                                       m.processor._current_job_name, self.input_name>>)
        up == S3Uploader_upload(m, self.source, desired_s3_uri, orc)
    IN  IF m.processor._current_job_name = None THEN Raise(m, TypeError_join)
        ELSE IF up.m.err # NoErr THEN up.m
        ELSE [up.m EXCEPT !.fileInputs[r].source = desired_s3_uri]

\* Lines 188-199: the FileInput at reference r has a local source, which is
\* uploaded and replaced by the URI the upload returns.
UploadInput(m, r, orc) ==
    LET self == m.fileInputs[r]
        desired_s3_uri == OsPathJoin(<<S3Root, DefaultBucket,
                                       m.processor._current_job_name, self.input_name>>)
        up == S3Uploader_upload(m, self.source, desired_s3_uri, orc)
    IN  IF m.processor._current_job_name = None THEN Raise(m, TypeError_join)
        ELSE IF up.m.err # NoErr THEN up.m
        ELSE [up.m EXCEPT !.fileInputs[r].source = up.ret]

RECURSIVE NormalizeInputsFrom(_, _, _, _, _)
NormalizeInputsFrom(m, inputs, count, normalized_inputs, orc) ==
    IF count > Len(inputs)
    THEN [m |-> m, ret |-> normalized_inputs]
    ELSE LET file_input == inputs[count]
         IN  IF ~IsInstance(file_input, "FileInput")
             THEN [m |-> Raise(m, TypeError_inputs), ret |-> None]
             ELSE LET r == file_input[2]
                      m1 == IF m.fileInputs[r].input_name = None
                            THEN [m EXCEPT !.fileInputs[r].input_name = InputName(count)]
                            ELSE m
                      m2 == IF IsS3(m1.fileInputs[r].source)
                            THEN m1
                            ELSE UploadInput(m1, r, orc)
                  IN  IF m2.err # NoErr
                      THEN [m |-> m2, ret |-> None]
                      ELSE NormalizeInputsFrom(m2, inputs, count + 1,
                                               Append(normalized_inputs, file_input), orc)

\* inputs is None or a list object; the result is a new list, held by value
_normalize_inputs(m, inputs, orc) ==
    IF inputs = None
    THEN [m |-> m, ret |-> <<>>]
    ELSE NormalizeInputsFrom(m, m.lists[inputs[2]], 1, <<>>, orc)

(***************************************************************************)
(* Processor._normalize_outputs. outputs is None or the elements of the    *)
(* caller's list, which the method only reads. A str element makes a new   *)
(* FileOutput object.                                                      *)
(***************************************************************************)
\* The default destination without the job name
DefaultOutputUri_NoJobName(m) == OsPathJoin(<<S3Root, DefaultBucket, StrOutput>>)

\* Lines 223-228: the destination of an output given as a str
DefaultOutputUri(m) ==
    OsPathJoin(<<S3Root, DefaultBucket, m.processor._current_job_name, StrOutput>>)

RECURSIVE NormalizeOutputsFrom(_, _, _, _)
NormalizeOutputsFrom(m, outputs, count, normalized_outputs) ==
    IF count > Len(outputs)
    THEN [m |-> m, ret |-> normalized_outputs]
    ELSE LET isStr == IsStr(outputs[count])
         IN  IF isStr /\ m.processor._current_job_name = None
             THEN [m |-> Raise(m, TypeError_join), ret |-> None]
             ELSE LET m1 == IF isStr
                            THEN [m EXCEPT !.fileOutputs =
                                      Append(@, FileOutput(outputs[count],
                                                           DefaultOutputUri(m), None, None))]
                            ELSE m
                      output == IF isStr THEN FileOutputRef(Len(m1.fileOutputs))
                                ELSE outputs[count]
                      r == output[2]
                      m2 == IF m1.fileOutputs[r].output_name = None
                            THEN [m1 EXCEPT !.fileOutputs[r].output_name =
                                                StrOutputDash \o FormatInt(count)]
                            ELSE m1
                  IN  NormalizeOutputsFrom(m2, outputs, count + 1,
                                           Append(normalized_outputs, output))

_normalize_outputs(m, outputs) ==
    IF outputs = None
    THEN [m |-> m, ret |-> <<>>]
    ELSE NormalizeOutputsFrom(m, outputs[2], 1, <<>>)

(***************************************************************************)
(* ProcessingJob.start_new(processor, inputs, outputs): the request is     *)
(* built (the first to_request_dict that raises ends it), process is       *)
(* called once with it, and the new ProcessingJob is returned.             *)
(***************************************************************************)
FirstError(results) ==
    LET bad == {i \in 1..Len(results) : results[i].err # NoErr}
    IN  IF bad = {} THEN NoErr
        ELSE results[CHOOSE i \in bad : \A j \in bad : i <= j].err

\* app_specification with the keys of the arguments and entrypoint that are
\* not empty
AppSpecification_NonEmpty(processor) ==
    LET app0 == [ImageUri |-> processor.image_uri]
        app1 == IF processor.arguments # None /\ processor.arguments # ListOf(<<>>)
                THEN app0 @@ ("ContainerArguments" :> processor.arguments)
                ELSE app0
    IN  IF processor.entrypoint # None /\ processor.entrypoint # ListOf(<<>>)
        THEN app1 @@ ("ContainerEntrypoint" :> processor.entrypoint)
        ELSE app1

\* Lines 521-525: process_request_args["app_specification"]
AppSpecification(processor) ==
    LET app0 == [ImageUri |-> processor.image_uri]
        app1 == IF processor.arguments # None
                THEN app0 @@ ("ContainerArguments" :> processor.arguments)
                ELSE app0
    IN  IF processor.entrypoint # None
        THEN app1 @@ ("ContainerEntrypoint" :> processor.entrypoint)
        ELSE app1

ProcessRequestArgs(m, inputs, outputs) ==
    LET processor == m.processor
        app2 == AppSpecification(processor)
    IN  [inputs |-> [i \in 1..Len(inputs) |->
                        FileInput_to_request_dict(m.fileInputs[inputs[i][2]]).ret],
         outputs |-> [i \in 1..Len(outputs) |->
                        FileOutput_to_request_dict(m.fileOutputs[outputs[i][2]]).ret],
         job_name |-> processor._current_job_name,
         resources |-> [ClusterConfig |->
                          [InstanceType |-> processor.processing_instance_type,
                           InstanceCount |-> processor.processing_instance_count,
                           VolumeSizeInGB |-> processor.processing_volume_size_in_gb]],
         stopping_condition |->
             [MaxRuntimeInSeconds |-> processor.processing_max_runtime_in_seconds],
         app_specification |-> app2,
         environment |-> processor.env,
         network_config |-> IF processor.network_config # None
                            THEN processor.network_config[2]
                            ELSE None,
         role_arn |-> processor.role,
         tags |-> processor.tags]

\* start_new with the request sent a second time when the first fails
start_new_Retrying(m, inputs, outputs, orc) ==
    LET inErr == FirstError([i \in 1..Len(inputs) |->
                                FileInput_to_request_dict(m.fileInputs[inputs[i][2]])])
        outErr == FirstError([i \in 1..Len(outputs) |->
                                FileOutput_to_request_dict(m.fileOutputs[outputs[i][2]])])
    IN  IF inErr # NoErr THEN [m |-> Raise(m, inErr), ret |-> None]
        ELSE IF outErr # NoErr THEN [m |-> Raise(m, outErr), ret |-> None]
        ELSE LET call == [op |-> "process", args |-> ProcessRequestArgs(m, inputs, outputs)]
                 m1 == [m EXCEPT !.calls = IF orc.processFails
                                           THEN Append(Append(@, call), call)
                                           ELSE Append(@, call)]
             IN  IF orc.processFails
                 THEN [m |-> Raise(m1, ProcessError), ret |-> None]
                 ELSE [m |-> m1,
                       ret |-> ProcessingJob(m1.processor._current_job_name, inputs, outputs)]

\* ProcessingJob.start_new(processor, inputs, outputs): [m, ret]
start_new(m, inputs, outputs, orc) ==
    LET inErr == FirstError([i \in 1..Len(inputs) |->
                                FileInput_to_request_dict(m.fileInputs[inputs[i][2]])])
        outErr == FirstError([i \in 1..Len(outputs) |->
                                FileOutput_to_request_dict(m.fileOutputs[outputs[i][2]])])
    IN  IF inErr # NoErr THEN [m |-> Raise(m, inErr), ret |-> None]
        ELSE IF outErr # NoErr THEN [m |-> Raise(m, outErr), ret |-> None]
        ELSE LET m1 == [m EXCEPT !.calls =
                           Append(@, [op |-> "process",
                                      args |-> ProcessRequestArgs(m, inputs, outputs)])]
             IN  IF orc.processFails
                 THEN [m |-> Raise(m1, ProcessError), ret |-> None]
                 ELSE [m |-> m1,
                       ret |-> ProcessingJob(m1.processor._current_job_name, inputs, outputs)]

\* wait with the two collaborators exchanged
ProcessingJob_wait_Swapped(m, self, logs, orc) ==
    LET call == IF logs
                THEN [op |-> "wait_for_processing_job", job_name |-> self[2].job_name]
                ELSE [op |-> "logs_for_processing_job", job_name |-> self[2].job_name]
        m1 == [m EXCEPT !.calls = Append(@, call)]
    IN  IF orc.waitFails THEN Raise(m1, WaitError) ELSE m1

\* ProcessingJob.wait(logs)
ProcessingJob_wait(m, self, logs, orc) ==
    LET call == IF logs
                THEN [op |-> "logs_for_processing_job", job_name |-> self[2].job_name]
                ELSE [op |-> "wait_for_processing_job", job_name |-> self[2].job_name]
        m1 == [m EXCEPT !.calls = Append(@, call)]
    IN  IF orc.waitFails THEN Raise(m1, WaitError) ELSE m1

\* sagemaker.job._Job.name: the property that reads job_name
Job_name(self) == self[2].job_name

\* What describe_analytics_job answers for a job name.
DescribeResponse(job_name) == <<"response", job_name>>

\* ProcessingJob.describe(print_response): [m, ret]
ProcessingJob_describe(m, self, print_response) ==
    [m |-> [m EXCEPT !.calls = Append(@, [op |-> "describe_analytics_job",
                                          job_name |-> self[2].job_name])],
     ret |-> DescribeResponse(self[2].job_name)]

\* ProcessingJob.stop()
ProcessingJob_stop(m, self) ==
    [m EXCEPT !.calls = Append(@, [op |-> "stop_processing_job", job_name |-> Job_name(self)])]

(***************************************************************************)
(* Processor.run(inputs, outputs, wait, logs, job_name).                   *)
(***************************************************************************)
\* run with the job recorded only once the wait has returned
Processor_run_JobAfterWait(m, inputs, outputs, wait, logs, job_name, orc) ==
    LET name == _generate_current_job_name(m, job_name)
        m1 == [name.m EXCEPT !.processor._current_job_name = name.ret]
        normalized_inputs == _normalize_inputs(m1, inputs, orc)
        normalized_outputs == _normalize_outputs(normalized_inputs.m, outputs)
        job == start_new(normalized_outputs.m, normalized_inputs.ret,
                         normalized_outputs.ret, orc)
        m2 == [job.m EXCEPT !.processor.latest_job = job.ret,
                            !.processor.jobs = Append(@, job.ret)]
    IN  IF normalized_inputs.m.err # NoErr THEN normalized_inputs.m
        ELSE IF normalized_outputs.m.err # NoErr THEN normalized_outputs.m
        ELSE IF job.m.err # NoErr THEN job.m
        ELSE IF wait
        THEN LET waited == ProcessingJob_wait(job.m, job.ret, logs, orc)
             IN  IF waited.err # NoErr THEN waited
                 ELSE [waited EXCEPT !.processor.latest_job = job.ret,
                                     !.processor.jobs = Append(@, job.ret)]
        ELSE m2

Processor_run(m, inputs, outputs, wait, logs, job_name, orc) ==
    LET name == _generate_current_job_name(m, job_name)
        m1 == [name.m EXCEPT !.processor._current_job_name = name.ret]
        normalized_inputs == _normalize_inputs(m1, inputs, orc)
        normalized_outputs == _normalize_outputs(normalized_inputs.m, outputs)
        job == start_new(normalized_outputs.m, normalized_inputs.ret,
                         normalized_outputs.ret, orc)
        m2 == [job.m EXCEPT !.processor.latest_job = job.ret,
                            !.processor.jobs = Append(@, job.ret)]
    IN  IF normalized_inputs.m.err # NoErr THEN normalized_inputs.m
        ELSE IF normalized_outputs.m.err # NoErr THEN normalized_outputs.m
        ELSE IF job.m.err # NoErr THEN job.m
        ELSE IF wait THEN ProcessingJob_wait(m2, m2.processor.latest_job, logs, orc)
        ELSE m2

\* attach that binds the processor to the named job
attach_Binding(m, processing_job_name, sagemaker_session) ==
    [m EXCEPT !.processor._current_job_name = processing_job_name,
              !.processor.latest_job = ProcessingJob(processing_job_name, <<>>, <<>>),
              !.processor.jobs = Append(@, ProcessingJob(processing_job_name, <<>>, <<>>))]

\* Processor.attach(processing_job_name, sagemaker_session)
attach(m, processing_job_name, sagemaker_session) == Raise(m, NotImplementedError)

(***************************************************************************)
(* ScriptModeProcessor.                                                    *)
(***************************************************************************)
\* The script name always taken from the source, a given script_name unused
_get_customer_script_name_FromSource(source, script_name) ==
    IF OsPathIsdir(source) /\ script_name = None
    THEN [err |-> ValueError_no_script_name, ret |-> None]
    ELSE IF IsS3(source) \/ OsPathIsfile(source) \/ OsPathIsdir(source)
    THEN [err |-> NoErr, ret |-> OsPathBasename(source)]
    ELSE [err |-> ValueError_not_exist, ret |-> None]

\* _get_customer_script_name(source, script_name): [err, ret]
_get_customer_script_name(source, script_name) ==
    IF OsPathIsdir(source) /\ script_name = None
    THEN [err |-> ValueError_no_script_name, ret |-> None]
    ELSE IF (IsS3(source) \/ OsPathIsdir(source)) /\ script_name # None
    THEN [err |-> NoErr, ret |-> script_name]
    ELSE IF IsS3(source) \/ OsPathIsfile(source)
    THEN [err |-> NoErr, ret |-> OsPathBasename(source)]
    ELSE [err |-> ValueError_not_exist, ret |-> None]

\* _upload_source(source): [m, ret]
_upload_source(m, source, orc) ==
    LET desired_s3_uri == OsPathJoin(<<S3Root, DefaultBucket,
                                       m.processor._current_job_name,
                                       CODE_CONTAINER_INPUT_NAME>>)
    IN  S3Uploader_upload(m, source, desired_s3_uri, orc)

\* _convert_source_and_add_to_inputs(inputs, s3_uri): [m, ret]. input_list is
\* the caller's list itself; the FileInput made before a failing append is
\* unreachable and is left out of the heap.
_convert_source_and_add_to_inputs(m, inputs, s3_uri) ==
    LET source_file_input ==
            FileInput(s3_uri,
                      OsPathJoin(<<CODE_CONTAINER_BASE_PATH, CODE_CONTAINER_INPUT_NAME>>),
                      CODE_CONTAINER_INPUT_NAME, S3InputMode_FILE, S3CompressionType_NONE)
        input_list == inputs
    IN  IF input_list = None
        THEN [m |-> Raise(m, AttributeError_append), ret |-> None]
        ELSE [m |-> [m EXCEPT !.fileInputs = Append(@, source_file_input),
                              !.lists[input_list[2]] =
                                  Append(@, FileInputRef(Len(m.fileInputs) + 1))],
              ret |-> input_list]

\* The interpreter chosen without reading py_version
_get_execution_program_Python3(self, script_name) ==
    LET file_extension == OsPathSplitextExt(script_name)
    IN  IF file_extension = ExtPy
        THEN [err |-> NoErr, ret |-> Python3]
        ELSE IF file_extension = ExtSh
        THEN [err |-> NoErr, ret |-> Bash]
        ELSE [err |-> ValueError_script_mode, ret |-> None]

\* _get_execution_program(script_name): [err, ret]
_get_execution_program(self, script_name) ==
    LET file_extension == OsPathSplitextExt(script_name)
    IN  IF file_extension = ExtPy
        THEN [err |-> NoErr,
              ret |-> IF self.py_version = Py3 THEN Python3
                      ELSE IF self.py_version = Py2 THEN Python2
                      ELSE Python]
        ELSE IF file_extension = ExtSh
        THEN [err |-> NoErr, ret |-> Bash]
        ELSE [err |-> ValueError_script_mode, ret |-> None]

\* _set_entrypoint(customer_script_name)
_set_entrypoint(m, customer_script_name) ==
    LET customer_script_location == OsPathJoin(<<CODE_CONTAINER_BASE_PATH,
                                                 CODE_CONTAINER_INPUT_NAME,
                                                 customer_script_name>>)
        execution_program == _get_execution_program(m.processor, customer_script_name)
    IN  IF execution_program.err # NoErr
        THEN Raise(m, execution_program.err)
        ELSE [m EXCEPT !.processor.entrypoint =
                           ListOf(<<execution_program.ret, customer_script_location>>)]

\* ScriptModeProcessor.run(source, script_name, inputs, outputs, wait, logs, job_name)
ScriptModeProcessor_run(m, source, script_name, inputs, outputs, wait, logs, job_name, orc) ==
    LET name == _generate_current_job_name(m, job_name)
        m1 == [name.m EXCEPT !.processor._current_job_name = name.ret]
        customer_script_name == _get_customer_script_name(source, script_name)
        customer_code_s3_uri == _upload_source(m1, source, orc)
        inputs_with_source == _convert_source_and_add_to_inputs(
                                  customer_code_s3_uri.m, inputs, customer_code_s3_uri.ret)
        m2 == _set_entrypoint(inputs_with_source.m, customer_script_name.ret)
    IN  IF customer_script_name.err # NoErr THEN Raise(m1, customer_script_name.err)
        ELSE IF customer_code_s3_uri.m.err # NoErr THEN customer_code_s3_uri.m
        ELSE IF inputs_with_source.m.err # NoErr THEN inputs_with_source.m
        ELSE IF m2.err # NoErr THEN m2
        ELSE Processor_run(m2, inputs_with_source.ret, outputs, wait, logs, job_name, orc)

(***************************************************************************)
(* The state: the processor object, the heaps of FileInput and FileOutput  *)
(* objects and of the caller's lists, the clock name_from_base reads, the  *)
(* calls the last operation made to its collaborators, in order, a record  *)
(* of the last operation (what was called with which arguments, the        *)
(* exception it ended with, the state it started from), and the number of  *)
(* operations performed.                                                   *)
(***************************************************************************)
VARIABLES processor, fileInputs, fileOutputs, lists, clock, calls, last, ops

vars == <<processor, fileInputs, fileOutputs, lists, clock, calls, last, ops>>

\* The number of operations in one behaviour, and the length of a list the
\* caller builds.
MaxOps == 2

MaxLen == 2

\* Processor.__init__ and ScriptModeProcessor.__init__
Processor(cls, py_version, entrypoint, arguments, base_job_name, network_config) ==
    [cls |-> cls,
     py_version |-> py_version,
     role |-> <<"r", "o", "l", "e">>,
     image_uri |-> <<"i", "m", "g", ":", "1">>,
     processing_instance_count |-> 1,
     processing_instance_type |-> <<"m", "l", ".", "c", "4">>,
     entrypoint |-> entrypoint,
     arguments |-> arguments,
     processing_volume_size_in_gb |-> 30,
     processing_volume_kms_key |-> None,
     processing_max_runtime_in_seconds |-> 24 * 60 * 60,
     base_job_name |-> base_job_name,
     env |-> None,
     tags |-> None,
     network_config |-> network_config,
     jobs |-> <<>>,
     latest_job |-> None,
     _current_job_name |-> None]

Machine ==
    [processor |-> processor, fileInputs |-> fileInputs, fileOutputs |-> fileOutputs,
     lists |-> lists, clock |-> clock, calls |-> <<>>, err |-> NoErr]

Pre ==
    [processor |-> processor, fileInputs |-> fileInputs, fileOutputs |-> fileOutputs,
     lists |-> lists, clock |-> clock]

\* The state after an operation that ended in machine m.
Commit(m, op, args, ret) ==
    /\ processor' = m.processor
    /\ fileInputs' = m.fileInputs
    /\ fileOutputs' = m.fileOutputs
    /\ lists' = m.lists
    /\ clock' = m.clock
    /\ calls' = m.calls
    /\ last' = [op |-> op, args |-> args, err |-> m.err, ret |-> ret, pre |-> Pre]
    /\ ops' = ops + 1

(***************************************************************************)
(* Values the caller passes.                                               *)
(***************************************************************************)
SrcS3Py == <<"s", "3", ":", "/", "/", "b", "k", "t", "/", "c", "/", "a", ".", "p", "y">>
SrcS3UpperSh == <<"S", "3", ":", "/", "/", "b", "k", "t", "/", "c", "/", "a", ".", "s", "h">>
SrcS3Dir == <<"s", "3", ":", "/", "/", "b", "k", "t", "/", "c", "/">>
SrcDir == <<"d">>
SrcFileSh == <<"w", "/", "a", ".", "s", "h">>
SrcFilePy == <<"a", ".", "p", "y">>
SrcFileTxt == <<"n", ".", "t", "x", "t">>
SrcMissing == <<"m", ".", "p", "y">>
PyOther == <<"p", "y", "2", "7">>
ScriptPy == <<"r", ".", "p", "y">>
ScriptTxt == <<"r", ".", "t", "x", "t">>
JobName == <<"j", "o", "b">>
BaseJobName == <<"b", "a", "s", "e">>
LocalData == <<"x", "/", "i", "n">>
RemoteData == <<"s", "3", ":", "/", "/", "o", "/", "i", "n">>
ContainerIn == <<"/", "o", "p", "t", "/", "i">>
ContainerOut == <<"/", "o", "p", "t", "/", "o">>
RemoteOut == <<"s", "3", ":", "/", "/", "o", "/", "o", "u", "t">>
NotAFileInput == <<"j", "u", "n", "k">>
KmsKey == <<"k", "e", "y">>

\* What the collaborators do in one operation.
NoFailure ==
    [uploadFailAt |-> 0, uploadNests |-> FALSE, processFails |-> FALSE, waitFails |-> FALSE]

\* A Session object of the caller's.
OtherSession == <<"Session", <<"s">> >>

NoWait == {[wait |-> FALSE, logs |-> TRUE]}

\* The sequences of at most n elements of S in which no element of Once
\* occurs twice (one object is passed once in a list).
SeqsUpTo(S, n, Once) ==
    {q \in UNION {[1..k -> S] : k \in 0..n} :
        \A i, j \in DOMAIN q : (q[i] \in Once /\ q[i] = q[j]) => i = j}

NoOp == [op |-> "__init__", args |-> None, err |-> NoErr, ret |-> None, pre |-> None]

(***************************************************************************)
(* The operations. Each is the whole call: it ends in the state the call   *)
(* leaves, whether it returns or raises. The sets are the arguments the    *)
(* caller chooses from and what the collaborators may do meanwhile.        *)
(***************************************************************************)
Run(Inputs, Outputs, WaitLogs, JobNames, Oracles) ==
    /\ processor.cls = "Processor"
    /\ ops < MaxOps
    /\ \E inputs \in Inputs, outputs \in Outputs, wl \in WaitLogs,
          job_name \in JobNames, orc \in Oracles :
          Commit(Processor_run(Machine, inputs, outputs, wl.wait, wl.logs, job_name, orc),
                 "Processor.run",
                 [inputs |-> inputs, outputs |-> outputs, wait |-> wl.wait,
                  logs |-> wl.logs, job_name |-> job_name],
                 None)

ScriptRun(Sources, ScriptNames, Inputs, Outputs, WaitLogs, JobNames, Oracles) ==
    /\ processor.cls = "ScriptModeProcessor"
    /\ ops < MaxOps
    /\ \E source \in Sources, script_name \in ScriptNames, inputs \in Inputs,
          outputs \in Outputs, wl \in WaitLogs, job_name \in JobNames, orc \in Oracles :
          Commit(ScriptModeProcessor_run(Machine, source, script_name, inputs, outputs,
                                         wl.wait, wl.logs, job_name, orc),
                 "ScriptModeProcessor.run",
                 [source |-> source, script_name |-> script_name, inputs |-> inputs,
                  outputs |-> outputs, wait |-> wl.wait, logs |-> wl.logs,
                  job_name |-> job_name],
                 None)

\* processor.jobs[j].wait(logs)
JobWait(Logs, Oracles) ==
    /\ ops < MaxOps
    /\ \E j \in 1..Len(processor.jobs), logs \in Logs, orc \in Oracles :
          Commit(ProcessingJob_wait(Machine, processor.jobs[j], logs, orc),
                 "ProcessingJob.wait", [self |-> j, logs |-> logs], None)

\* processor.jobs[j].describe(print_response)
JobDescribe(PrintResponses) ==
    /\ ops < MaxOps
    /\ \E j \in 1..Len(processor.jobs), print_response \in PrintResponses :
          LET r == ProcessingJob_describe(Machine, processor.jobs[j], print_response)
          IN  Commit(r.m, "ProcessingJob.describe",
                     [self |-> j, print_response |-> print_response], r.ret)

\* processor.jobs[j].stop()
JobStop ==
    /\ ops < MaxOps
    /\ \E j \in 1..Len(processor.jobs) :
          Commit(ProcessingJob_stop(Machine, processor.jobs[j]), "ProcessingJob.stop",
                 [self |-> j], None)

\* processor.attach(processing_job_name, sagemaker_session)
Attach(JobNames, Sessions) ==
    /\ ops < MaxOps
    /\ \E processing_job_name \in JobNames, sagemaker_session \in Sessions :
          Commit(attach(Machine, processing_job_name, sagemaker_session), "Processor.attach",
                 [processing_job_name |-> processing_job_name,
                  sagemaker_session |-> sagemaker_session],
                 None)

\* processor._normalize_inputs(inputs)
NormalizeInputs(Inputs, Oracles) ==
    /\ ops < MaxOps
    /\ \E inputs \in Inputs, orc \in Oracles :
          LET r == _normalize_inputs(Machine, inputs, orc)
          IN  Commit(r.m, "_normalize_inputs", [inputs |-> inputs], r.ret)

\* processor._normalize_outputs(outputs)
NormalizeOutputs(Outputs) ==
    /\ ops < MaxOps
    /\ \E outputs \in Outputs :
          LET r == _normalize_outputs(Machine, outputs)
          IN  Commit(r.m, "_normalize_outputs", [outputs |-> outputs], r.ret)

\* FileInput(source, destination, input_name, s3_input_mode=, s3_compression_type=)
NewFileInput(Sources, Names, Modes, Compressions) ==
    /\ ops < MaxOps
    /\ \E source \in Sources, input_name \in Names, mode \in Modes, c \in Compressions :
          Commit([Machine EXCEPT !.fileInputs =
                     Append(@, FileInput(source, ContainerIn, input_name, mode, c))],
                 "FileInput.__init__",
                 [source |-> source, input_name |-> input_name, s3_input_mode |-> mode,
                  s3_compression_type |-> c],
                 FileInputRef(Len(fileInputs) + 1))

\* file_input.to_request_dict()
ToRequestDict ==
    /\ ops < MaxOps
    /\ \E i \in 1..Len(fileInputs) :
          LET r == FileInput_to_request_dict(fileInputs[i])
          IN  Commit(Raise(Machine, r.err), "FileInput.to_request_dict",
                     [self |-> FileInputRef(i)], r.ret)

\* processor._get_customer_script_name(source, script_name)
GetCustomerScriptName(Sources, ScriptNames) ==
    /\ processor.cls = "ScriptModeProcessor"
    /\ ops < MaxOps
    /\ \E source \in Sources, script_name \in ScriptNames :
          LET r == _get_customer_script_name(source, script_name)
          IN  Commit(Raise(Machine, r.err), "_get_customer_script_name",
                     [source |-> source, script_name |-> script_name], r.ret)

\* processor._set_entrypoint(customer_script_name)
SetEntrypoint(ScriptNames) ==
    /\ processor.cls = "ScriptModeProcessor"
    /\ ops < MaxOps
    /\ \E customer_script_name \in ScriptNames :
          Commit(_set_entrypoint(Machine, customer_script_name), "_set_entrypoint",
                 [customer_script_name |-> customer_script_name], None)

(***************************************************************************)
(* SpecSerialize: the caller constructs FileInput objects, with every      *)
(* input mode and compression type, and serializes them.                   *)
(***************************************************************************)
InitSerialize ==
    /\ processor = Processor("Processor", None, None, None, None, None)
    /\ fileInputs = <<>>
    /\ fileOutputs = <<>>
    /\ lists = <<>>
    /\ clock = 1
    /\ calls = <<>>
    /\ last = NoOp
    /\ ops = 0

NextSerialize ==
    \/ NewFileInput({LocalData, RemoteData}, {None, <<"n">>},
                    {S3InputMode_FILE, S3InputMode_PIPE},
                    {None, S3CompressionType_NONE, S3CompressionType_GZIP})
    \/ ToRequestDict

SpecSerialize == InitSerialize /\ [][NextSerialize]_vars

(***************************************************************************)
(* C7. Constructing a FileInput never fails, whatever its compression type *)
(* and input mode. Serializing a FileInput raises the ValueError exactly   *)
(* when its compression type is GZIP and its input mode is not PIPE, and   *)
(* raises nothing else; with GZIP and PIPE it returns a dictionary whose   *)
(* S3Input holds S3CompressionType; and it leaves every FileInput as it    *)
(* was.                                                                    *)
(***************************************************************************)
C7_GzipNeedsPipeAtSerialization ==
    /\ last.op = "FileInput.__init__" =>
          /\ last.err = NoErr
          /\ fileInputs[last.ret[2]].s3_compression_type = last.args.s3_compression_type
          /\ fileInputs[last.ret[2]].s3_input_mode = last.args.s3_input_mode
    /\ last.op = "FileInput.to_request_dict" =>
          LET self == last.pre.fileInputs[last.args.self[2]]
              gzip == self.s3_compression_type = S3CompressionType_GZIP
              pipe == self.s3_input_mode = S3InputMode_PIPE
          IN  /\ last.err = (IF gzip /\ ~pipe THEN ValueError_gzip ELSE NoErr)
              /\ (gzip /\ pipe) =>
                    /\ "S3CompressionType" \in DOMAIN last.ret.S3Input
                    /\ last.ret.S3Input.S3CompressionType = EnumValue(S3CompressionType_GZIP)
              /\ fileInputs = last.pre.fileInputs

\* A gzipped FileInput in File mode was constructed and its serialization raised.
C7_Witness ==
    /\ last.op = "FileInput.to_request_dict"
    /\ last.err = ValueError_gzip
    /\ fileInputs[last.args.self[2]].s3_compression_type = S3CompressionType_GZIP
    /\ fileInputs[last.args.self[2]].s3_input_mode = S3InputMode_FILE

(***************************************************************************)
(* SpecNormalizeInputs: _normalize_inputs on a processor whose run has set *)
(* the job name (line 132). The caller owns six FileInput objects, named   *)
(* or not, with a local or a remote source, and two lists of them: the     *)
(* first is any list of at most MaxLen of the first four objects, the      *)
(* second holds the last two. An upload may fail, and returns the desired  *)
(* URI or a key under it.                                                  *)
(***************************************************************************)
RunningProcessor ==
    [Processor("Processor", None, None, None, None, None) EXCEPT !._current_job_name = JobName]

InputPool ==
    <<FileInput(LocalData, ContainerIn, None, S3InputMode_FILE, S3CompressionType_NONE),
      FileInput(LocalData, ContainerIn, <<"n">>, S3InputMode_FILE, S3CompressionType_NONE),
      FileInput(RemoteData, ContainerIn, None, S3InputMode_FILE, S3CompressionType_NONE),
      FileInput(RemoteData, ContainerIn, <<"m">>, S3InputMode_FILE, S3CompressionType_NONE),
      FileInput(LocalData, ContainerIn, None, S3InputMode_FILE, S3CompressionType_NONE),
      FileInput(RemoteData, ContainerIn, None, S3InputMode_FILE, S3CompressionType_NONE)>>

FirstPool == {FileInputRef(i) : i \in 1..4}

InitNormalizeInputs ==
    /\ processor = RunningProcessor
    /\ fileInputs = InputPool
    /\ fileOutputs = <<>>
    /\ lists \in {<<q, <<FileInputRef(5), FileInputRef(6)>> >> :
                     q \in SeqsUpTo(FirstPool, MaxLen, FirstPool)}
    /\ clock = 1
    /\ calls = <<>>
    /\ last = NoOp
    /\ ops = 0

NextNormalizeInputs ==
    NormalizeInputs({None, ListRef(1), ListRef(2)},
                    [uploadFailAt : 0..1, uploadNests : BOOLEAN,
                     processFails : {FALSE}, waitFails : {FALSE}])

SpecNormalizeInputs == InitNormalizeInputs /\ [][NextNormalizeInputs]_vars

\* The list a call of _normalize_inputs was given, as it was at the call.
C4_Given == IF last.args.inputs = None THEN <<>> ELSE last.pre.lists[last.args.inputs[2]]

C4_Expected(i) ==
    CASE i = 1 -> <<"i", "n", "p", "u", "t", "-", "1">>
      [] i = 2 -> <<"i", "n", "p", "u", "t", "-", "2">>
      [] i = 3 -> <<"i", "n", "p", "u", "t", "-", "3">>
      [] i = 4 -> <<"i", "n", "p", "u", "t", "-", "4">>

(***************************************************************************)
(* C4. A call of _normalize_inputs that returns, returns the FileInput     *)
(* objects of its list in the order of the list; an object whose name      *)
(* was unset has name "input-i" for its 1-based position i in this list,   *)
(* whatever an earlier call numbered, and an object whose name was set     *)
(* keeps it.                                                               *)
(***************************************************************************)
C4_NormalizeInputsNamesByPosition ==
    (last.op = "_normalize_inputs" /\ last.err = NoErr) =>
        /\ last.ret = C4_Given
        /\ \A i \in 1..Len(C4_Given) :
              LET before == last.pre.fileInputs[C4_Given[i][2]].input_name
                  after == fileInputs[C4_Given[i][2]].input_name
              IN  IF before = None THEN after = C4_Expected(i) ELSE after = before

\* A second call, on the second list, starts again at "input-1" although the
\* first call named an object "input-2".
C4_Witness ==
    /\ ops = 2
    /\ last.op = "_normalize_inputs"
    /\ last.err = NoErr
    /\ last.args.inputs = ListRef(2)
    /\ last.pre.fileInputs[5].input_name = None
    /\ fileInputs[5].input_name = C4_Expected(1)
    /\ fileInputs[6].input_name = C4_Expected(2)
    /\ \E r \in {1, 3} : fileInputs[r].input_name = C4_Expected(2)

\* The calls of S3Uploader.upload the last operation made, in order.
UploadCalls == SelectSeq(calls, LAMBDA c : c.op = "upload")

\* The positions of the given list whose source was not a remote URI, in order.
C5_LocalPositions ==
    LET Local(i) == ~IsS3(last.pre.fileInputs[C4_Given[i][2]].source)
        F[i \in 0..Len(C4_Given)] ==
            IF i = 0 THEN <<>> ELSE IF Local(i) THEN Append(F[i - 1], i) ELSE F[i - 1]
    IN  F[Len(C4_Given)]

\* <bucket>/<job-name>/<name> under s3://
C5_Location(job_name, name) == S3Root \o DefaultBucket \o <<"/">> \o job_name \o <<"/">> \o name

(***************************************************************************)
(* C5. In a call of _normalize_inputs that returns, a FileInput whose      *)
(* source was an s3 URI keeps its source and there is one upload per       *)
(* FileInput whose source was not, in list order: of that source, to       *)
(* s3://<bucket>/<current job name>/<its name after naming>, and the       *)
(* source becomes what that upload returned. No other upload is made; a    *)
(* call that raises has made no more uploads than there are local sources. *)
(***************************************************************************)
C5_UploadsLocalSourcesOnce ==
    last.op = "_normalize_inputs" =>
        /\ Len(UploadCalls) <= Len(C5_LocalPositions)
        /\ last.err = NoErr =>
              /\ Len(UploadCalls) = Len(C5_LocalPositions)
              /\ \A i \in 1..Len(C4_Given) :
                    IsS3(last.pre.fileInputs[C4_Given[i][2]].source) =>
                        fileInputs[C4_Given[i][2]].source =
                            last.pre.fileInputs[C4_Given[i][2]].source
              /\ \A k \in 1..Len(C5_LocalPositions) :
                    LET r == C4_Given[C5_LocalPositions[k]][2]
                    IN  /\ UploadCalls[k].local_path = last.pre.fileInputs[r].source
                        /\ UploadCalls[k].desired_s3_uri =
                              C5_Location(processor._current_job_name, fileInputs[r].input_name)
                        /\ fileInputs[r].source = UploadCalls[k].ret

\* A list with a remote and a local source: one upload, whose returned URI is
\* not the desired one and is the new source.
C5_Witness ==
    /\ last.op = "_normalize_inputs"
    /\ last.err = NoErr
    /\ Len(C4_Given) = 2
    /\ Len(UploadCalls) = 1
    /\ UploadCalls[1].ret # UploadCalls[1].desired_s3_uri
    /\ \E i \in 1..2 : fileInputs[C4_Given[i][2]].source = UploadCalls[1].ret

(***************************************************************************)
(* SpecNormalizeOutputs: _normalize_outputs on a processor whose run has   *)
(* set the job name. The caller owns an unnamed FileOutput and a named     *)
(* one with a key, and passes None or a list of at most MaxLen strs and    *)
(* FileOutput objects.                                                     *)
(***************************************************************************)
OutputPool ==
    <<FileOutput(ContainerOut, RemoteOut, None, None),
      FileOutput(ContainerOut, RemoteOut, <<"r">>, KmsKey)>>

OutputElements == {ContainerOut, <<"/", "x">>, FileOutputRef(1), FileOutputRef(2)}

InitNormalizeOutputs ==
    /\ processor = RunningProcessor
    /\ fileInputs = <<>>
    /\ fileOutputs = OutputPool
    /\ lists = <<>>
    /\ clock = 1
    /\ calls = <<>>
    /\ last = NoOp
    /\ ops = 0

NextNormalizeOutputs ==
    NormalizeOutputs({None} \cup
                     {ListOf(q) : q \in SeqsUpTo(OutputElements, MaxLen,
                                                 {FileOutputRef(1), FileOutputRef(2)})})

SpecNormalizeOutputs == InitNormalizeOutputs /\ [][NextNormalizeOutputs]_vars

\* The elements a call of _normalize_outputs was given.
C6_Given == IF last.args.outputs = None THEN <<>> ELSE last.args.outputs[2]

C6_Expected(i) ==
    CASE i = 1 -> <<"o", "u", "t", "p", "u", "t", "-", "1">>
      [] i = 2 -> <<"o", "u", "t", "p", "u", "t", "-", "2">>
      [] i = 3 -> <<"o", "u", "t", "p", "u", "t", "-", "3">>
      [] i = 4 -> <<"o", "u", "t", "p", "u", "t", "-", "4">>

(***************************************************************************)
(* C6. _normalize_outputs returns one FileOutput per element, in order.    *)
(* For a str X at 1-based position i it is a new object with source X,     *)
(* destination s3://<bucket>/<current job name>/output and name            *)
(* "output-i"; a FileOutput is returned itself with its source and         *)
(* destination, and with its name, or "output-i" if it had none. No call   *)
(* of a collaborator is made.                                              *)
(***************************************************************************)
C6_NormalizeOutputs ==
    last.op = "_normalize_outputs" =>
        /\ last.err = NoErr
        /\ calls = <<>>
        /\ Len(last.ret) = Len(C6_Given)
        /\ \A i \in 1..Len(C6_Given) :
              LET given == C6_Given[i]
                  after == fileOutputs[last.ret[i][2]]
              IN  /\ IsInstance(last.ret[i], "FileOutput")
                  /\ IF IsStr(given)
                     THEN /\ last.ret[i][2] > Len(last.pre.fileOutputs)
                          /\ after.source = given
                          /\ after.destination =
                                C5_Location(processor._current_job_name, StrOutput)
                          /\ after.output_name = C6_Expected(i)
                     ELSE LET before == last.pre.fileOutputs[given[2]]
                          IN  /\ last.ret[i] = given
                              /\ after.source = before.source
                              /\ after.destination = before.destination
                              /\ after.kms_key_id = before.kms_key_id
                              /\ after.output_name = IF before.output_name = None
                                                     THEN C6_Expected(i)
                                                     ELSE before.output_name

\* A str first and the unnamed FileOutput second: "output-1" and "output-2".
C6_Witness ==
    /\ last.op = "_normalize_outputs"
    /\ Len(C6_Given) = 2
    /\ IsStr(C6_Given[1])
    /\ C6_Given[2] = FileOutputRef(1)
    /\ last.pre.fileOutputs[1].output_name = None
    /\ fileOutputs[1].output_name = C6_Expected(2)
    /\ fileOutputs[last.ret[1][2]].output_name = C6_Expected(1)
    /\ fileOutputs[last.ret[1][2]].destination =
          <<"s", "3", ":", "/", "/", "b", "k", "t", "/", "j", "o", "b", "/",
            "o", "u", "t", "p", "u", "t">>

(***************************************************************************)
(* SpecScript: a ScriptModeProcessor with a py_version of "py3", "py2" or  *)
(* another tag. The caller resolves script names, sets entrypoints and     *)
(* runs scripts, passing its one list of inputs.                           *)
(***************************************************************************)
ScriptSources ==
    {SrcS3Py, SrcS3UpperSh, SrcS3Dir, SrcDir, SrcFileSh, SrcFilePy, SrcFileTxt, SrcMissing}

CustomerScriptNames ==
    {SrcFilePy, ScriptPy, ScriptTxt, <<"a", ".", "s", "h">>, <<"A", ".", "P", "Y">>,
     <<".", "p", "y">>, <<"m">>, <<"w", "/", "b", ".", "a", ".", "p", "y">>}

InitScript ==
    /\ processor \in {Processor("ScriptModeProcessor", v, None, None, None, None) :
                         v \in {Py3, Py2, PyOther}}
    /\ fileInputs = <<>>
    /\ fileOutputs = <<>>
    /\ lists = << <<>> >>
    /\ clock = 1
    /\ calls = <<>>
    /\ last = NoOp
    /\ ops = 0

NextScript ==
    \/ GetCustomerScriptName(ScriptSources, {None, ScriptPy, ScriptTxt})
    \/ SetEntrypoint(CustomerScriptNames)
    \/ ScriptRun({SrcS3Py, SrcDir, SrcFileSh, SrcFileTxt}, {None, ScriptPy}, {ListRef(1)},
                 {None}, NoWait, {JobName}, {NoFailure})

SpecScript == InitScript /\ [][NextScript]_vars

\* The kinds of source of claim C8.
C8_RemoteURIs == {SrcS3Py, SrcS3UpperSh, SrcS3Dir}

C8_Directories == {SrcDir}

C8_Files == {SrcFileSh, SrcFilePy, SrcFileTxt}

\* What follows the last "/" of s.
C8_FinalSegment(s) ==
    LET slashes == {i \in 1..Len(s) : s[i] = "/"}
        k == IF slashes = {} THEN 0 ELSE CHOOSE i \in slashes : \A j \in slashes : j <= i
    IN  SubSeq(s, k + 1, Len(s))

(***************************************************************************)
(* C8. _get_customer_script_name(source, script_name): a local directory   *)
(* without script_name raises a ValueError; a remote URI or a local        *)
(* directory with script_name gives script_name; a remote URI without      *)
(* script_name, or a local file, gives the final path segment of source;   *)
(* any other source raises a ValueError. The processor is not changed.     *)
(***************************************************************************)
C8_ScriptNameResolution ==
    last.op = "_get_customer_script_name" =>
        LET source == last.args.source
            script_name == last.args.script_name
        IN  /\ processor = last.pre.processor
            /\ calls = <<>>
            /\ IF source \in C8_Directories /\ script_name = None
               THEN last.err = ValueError_no_script_name
               ELSE IF source \in C8_RemoteURIs \cup C8_Directories /\ script_name # None
               THEN last.err = NoErr /\ last.ret = script_name
               ELSE IF source \in C8_RemoteURIs \cup C8_Files
               THEN last.err = NoErr /\ last.ret = C8_FinalSegment(source)
               ELSE last.err = ValueError_not_exist

\* A remote URI with a script_name gives the script_name, not "a.py".
C8_Witness ==
    /\ last.op = "_get_customer_script_name"
    /\ last.args.source = SrcS3Py
    /\ last.args.script_name = ScriptTxt
    /\ last.err = NoErr
    /\ last.ret = <<"r", ".", "t", "x", "t">>

\* The extension of a file name: from its last ".", unless the name has none
\* after its first character or after its last "/".
C9_Extension(name) ==
    LET base == C8_FinalSegment(name)
        dots == {i \in 2..Len(base) : base[i] = "." /\ \E j \in 1..(i - 1) : base[j] # "."}
    IN  IF dots = {} THEN <<>>
        ELSE SubSeq(base, CHOOSE i \in dots : \A j \in dots : j <= i, Len(base))

\* The entrypoint claim C9 expects for a script name, None for a failure.
C9_Entrypoint(py_version, name) ==
    LET ext == C9_Extension(name)
        location == <<"/", "c", "o", "d", "e", "/", "s", "o", "u", "r", "c", "e", "/">> \o name
    IN  IF ext = <<".", "p", "y">>
        THEN IF py_version = <<"p", "y", "3">>
             THEN ListOf(<< <<"p", "y", "t", "h", "o", "n", "3">>, location>>)
             ELSE IF py_version = <<"p", "y", "2">>
             THEN ListOf(<< <<"p", "y", "t", "h", "o", "n", "2">>, location>>)
             ELSE ListOf(<< <<"p", "y", "t", "h", "o", "n">>, location>>)
        ELSE IF ext = <<".", "s", "h">>
        THEN ListOf(<< <<"b", "a", "s", "h">>, location>>)
        ELSE None

\* The requests the last operation submitted.
SubmittedPayloads == SelectSeq(calls, LAMBDA c : c.op = "process")

(***************************************************************************)
(* C9. _set_entrypoint(name) sets the entrypoint to [interpreter,          *)
(* "/code/source/" + name], the interpreter being python3, python2 or      *)
(* python for a ".py" name by the py_version "py3", "py2" or other, and    *)
(* bash for a ".sh" name; for another extension it raises a ValueError     *)
(* and the entrypoint is as before. A ScriptModeProcessor.run that submits *)
(* a request has set the entrypoint so for the resolved script name, and   *)
(* the request's ContainerEntrypoint is that entrypoint; one that ends     *)
(* with the extension's ValueError leaves the entrypoint as before.        *)
(***************************************************************************)
C9_EntrypointDerivation ==
    /\ last.op = "_set_entrypoint" =>
          LET expected == C9_Entrypoint(last.pre.processor.py_version,
                                        last.args.customer_script_name)
          IN  IF expected = None
              THEN /\ last.err = ValueError_script_mode
                   /\ processor.entrypoint = last.pre.processor.entrypoint
              ELSE /\ last.err = NoErr
                   /\ processor.entrypoint = expected
    /\ last.op = "ScriptModeProcessor.run" =>
          LET resolved == _get_customer_script_name(last.args.source, last.args.script_name)
          IN  /\ last.err = ValueError_script_mode =>
                    /\ resolved.err = NoErr
                    /\ C9_Entrypoint(last.pre.processor.py_version, resolved.ret) = None
                    /\ processor.entrypoint = last.pre.processor.entrypoint
                    /\ SubmittedPayloads = <<>>
              /\ SubmittedPayloads # <<>> =>
                    /\ resolved.err = NoErr
                    /\ processor.entrypoint =
                          C9_Entrypoint(last.pre.processor.py_version, resolved.ret)
                    /\ "ContainerEntrypoint" \in
                          DOMAIN SubmittedPayloads[1].args.app_specification
                    /\ SubmittedPayloads[1].args.app_specification.ContainerEntrypoint =
                          processor.entrypoint

\* A run of a ".sh" file by a "py2" processor that had a python2 entrypoint
\* submits ["bash", "/code/source/a.sh"].
C9_Witness ==
    /\ last.op = "ScriptModeProcessor.run"
    /\ last.err = NoErr
    /\ last.pre.processor.py_version = Py2
    /\ last.pre.processor.entrypoint # None
    /\ last.pre.processor.entrypoint[2][1] = <<"p", "y", "t", "h", "o", "n", "2">>
    /\ Len(SubmittedPayloads) = 1
    /\ SubmittedPayloads[1].args.app_specification.ContainerEntrypoint =
          ListOf(<< <<"b", "a", "s", "h">>,
                    <<"/", "c", "o", "d", "e", "/", "s", "o", "u", "r", "c", "e", "/",
                      "a", ".", "s", "h">> >>)

\* A run of a ".txt" file fails and leaves the entrypoint an earlier call set.
C9_WitnessUnsupported ==
    /\ last.op = "ScriptModeProcessor.run"
    /\ last.err = ValueError_script_mode
    /\ processor.entrypoint # None

(***************************************************************************)
(* SpecSubmit: a Processor constructed with or without an entrypoint,      *)
(* arguments (also an empty list) and a network configuration runs jobs    *)
(* whose inputs have no compression type, NONE, or GZIP in Pipe mode, and  *)
(* whose outputs have a key or none.                                       *)
(***************************************************************************)
SubmitInputs ==
    <<FileInput(RemoteData, ContainerIn, <<"n">>, S3InputMode_FILE, None),
      FileInput(RemoteData, ContainerIn, <<"m">>, S3InputMode_FILE, S3CompressionType_NONE),
      FileInput(RemoteData, ContainerIn, None, S3InputMode_PIPE, S3CompressionType_GZIP)>>

InitSubmit ==
    /\ processor \in
          {Processor("Processor", None, entrypoint, arguments, None, network_config) :
              entrypoint \in {None, ListOf(<< <<"r", "u", "n">> >>)},
              arguments \in {None, ListOf(<<>>), ListOf(<< <<"-", "v">> >>)},
              network_config \in {None, NetworkConfig([EnableNetworkIsolation |-> TRUE])}}
    /\ fileInputs = SubmitInputs
    /\ fileOutputs = OutputPool
    /\ lists = << <<FileInputRef(1)>>, <<FileInputRef(2), FileInputRef(3)>> >>
    /\ clock = 1
    /\ calls = <<>>
    /\ last = NoOp
    /\ ops = 0

NextSubmit ==
    Run({None, ListRef(1), ListRef(2)},
        {None, ListOf(<<FileOutputRef(1)>>), ListOf(<<ContainerOut, FileOutputRef(2)>>)},
        NoWait, {JobName}, {NoFailure})

SpecSubmit == InitSubmit /\ [][NextSubmit]_vars

(***************************************************************************)
(* C10. In the request a run submits: ContainerArguments is a key of       *)
(* app_specification exactly if the processor's arguments are not None,    *)
(* and ContainerEntrypoint exactly if its entrypoint is not None; an       *)
(* input's S3Input has the key S3CompressionType exactly if the            *)
(* FileInput's s3_compression_type is not None, and an output's S3Output   *)
(* has the key KmsKeyId exactly if the FileOutput's kms_key_id is not      *)
(* None; network_config is always passed, as the network configuration's   *)
(* request dict or as None.                                                *)
(***************************************************************************)
C10_OptionalKeys ==
    (last.op = "Processor.run" /\ SubmittedPayloads # <<>>) =>
        LET args == SubmittedPayloads[1].args
            self == last.pre.processor
            job == processor.latest_job[2]
        IN  /\ ("ContainerArguments" \in DOMAIN args.app_specification)
                  <=> (self.arguments # None)
            /\ self.arguments # None =>
                  args.app_specification.ContainerArguments = self.arguments
            /\ ("ContainerEntrypoint" \in DOMAIN args.app_specification)
                  <=> (self.entrypoint # None)
            /\ self.entrypoint # None =>
                  args.app_specification.ContainerEntrypoint = self.entrypoint
            /\ Len(args.inputs) = Len(job.inputs)
            /\ \A i \in 1..Len(job.inputs) :
                  LET file_input == fileInputs[job.inputs[i][2]]
                  IN  /\ ("S3CompressionType" \in DOMAIN args.inputs[i].S3Input)
                            <=> (file_input.s3_compression_type # None)
                      /\ file_input.s3_compression_type # None =>
                            args.inputs[i].S3Input.S3CompressionType =
                                EnumValue(file_input.s3_compression_type)
            /\ Len(args.outputs) = Len(job.outputs)
            /\ \A i \in 1..Len(job.outputs) :
                  LET file_output == fileOutputs[job.outputs[i][2]]
                  IN  /\ ("KmsKeyId" \in DOMAIN args.outputs[i].S3Output)
                            <=> (file_output.kms_key_id # None)
                      /\ file_output.kms_key_id # None =>
                            args.outputs[i].S3Output.KmsKeyId = file_output.kms_key_id
            /\ "network_config" \in DOMAIN args
            /\ args.network_config = IF self.network_config = None THEN None
                                     ELSE self.network_config[2]

\* A request with empty ContainerArguments, no ContainerEntrypoint, a None
\* network_config, an input without S3CompressionType and an output with and
\* one without KmsKeyId.
C10_Witness ==
    /\ last.op = "Processor.run"
    /\ last.err = NoErr
    /\ Len(SubmittedPayloads) = 1
    /\ last.pre.processor.network_config = None
    /\ LET args == SubmittedPayloads[1].args
       IN  /\ DOMAIN args.app_specification = {"ImageUri", "ContainerArguments"}
           /\ args.app_specification.ContainerArguments = ListOf(<<>>)
           /\ args.network_config = None
           /\ Len(args.inputs) = 1
           /\ "S3CompressionType" \notin DOMAIN args.inputs[1].S3Input
           /\ Len(args.outputs) = 2
           /\ "KmsKeyId" \notin DOMAIN args.outputs[1].S3Output
           /\ args.outputs[2].S3Output.KmsKeyId = KmsKey

(***************************************************************************)
(* Spec: a Processor or a ScriptModeProcessor, and a caller that owns a    *)
(* FileInput with a local source and no name, a FileInput that is gzipped  *)
(* in File mode, and three lists: of the first, of both, and of the first  *)
(* and a str. The caller runs jobs, with and without a job name; an upload *)
(* (the first or the second of a run), the submission or the wait may      *)
(* fail.                                                                   *)
(***************************************************************************)
Init ==
    /\ processor \in {Processor("Processor", None, None, None, BaseJobName, None),
                      Processor("ScriptModeProcessor", Py3, None, None, None, None)}
    /\ fileInputs =
          <<FileInput(LocalData, ContainerIn, None, S3InputMode_FILE, S3CompressionType_NONE),
            FileInput(RemoteData, ContainerIn, <<"z">>, S3InputMode_FILE,
                      S3CompressionType_GZIP)>>
    /\ fileOutputs = <<>>
    /\ lists = << <<FileInputRef(1)>>, <<FileInputRef(1), FileInputRef(2)>>,
                  <<FileInputRef(1), NotAFileInput>> >>
    /\ clock = 1
    /\ calls = <<>>
    /\ last = NoOp
    /\ ops = 0

Failures ==
    {NoFailure, [NoFailure EXCEPT !.uploadFailAt = 1], [NoFailure EXCEPT !.uploadFailAt = 2],
     [NoFailure EXCEPT !.processFails = TRUE], [NoFailure EXCEPT !.waitFails = TRUE]}

Next ==
    \/ Run({None, ListRef(1), ListRef(2), ListRef(3)}, {ListOf(<<ContainerOut>>)},
           {[wait |-> TRUE, logs |-> TRUE], [wait |-> FALSE, logs |-> TRUE]},
           {None, JobName}, Failures)
    \/ ScriptRun({SrcS3Py, SrcFileSh, SrcDir, SrcFileTxt, SrcMissing}, {None, ScriptPy},
                 {None, ListRef(1)}, {None}, {[wait |-> TRUE, logs |-> FALSE]},
                 {None, JobName}, Failures)
    \/ Attach({JobName, BaseJobName}, {None, OtherSession})

Spec == Init /\ [][Next]_vars

RunOps == {"Processor.run", "ScriptModeProcessor.run"}

(***************************************************************************)
(* C1. A run that ends with a validation error of the script (no script    *)
(* name for a directory, a source that does not exist, an unsupported      *)
(* extension) has called no collaborator: no upload, no submission, no     *)
(* wait. A run that ends with the gzip error has submitted nothing.        *)
(***************************************************************************)
C1_ValidationBeforeNetwork ==
    last.op \in RunOps =>
        /\ last.err \in {ValueError_no_script_name, ValueError_not_exist,
                         ValueError_script_mode} => calls = <<>>
        /\ last.err = ValueError_gzip => SubmittedPayloads = <<>>

\* The errors a run raises before start_new calls process.
C2_ErrorsBeforeSubmission ==
    {TypeError_inputs, TypeError_join, AttributeError_append, UploadError,
     ValueError_no_script_name, ValueError_not_exist, ValueError_script_mode,
     ValueError_gzip}

(***************************************************************************)
(* C2. A run calls process at most once: not at all if it ends with an     *)
(* error of name or script resolution, normalization, upload or            *)
(* serialization, and exactly once otherwise, also if process itself or    *)
(* the wait fails.                                                         *)
(***************************************************************************)
C2_SubmitsAtMostOnce ==
    last.op \in RunOps =>
        /\ Len(SubmittedPayloads) <= 1
        /\ last.err \in C2_ErrorsBeforeSubmission => SubmittedPayloads = <<>>
        /\ last.err \notin C2_ErrorsBeforeSubmission => Len(SubmittedPayloads) = 1
        /\ (SubmittedPayloads # <<>> /\ last.err # ProcessError) =>
              /\ Len(processor.jobs) = Len(last.pre.processor.jobs) + 1
              /\ processor.latest_job[2].job_name = SubmittedPayloads[1].args.job_name
        /\ last.err = ProcessError => processor.jobs = last.pre.processor.jobs

\* A run whose uploads succeeded and whose submission failed: one process
\* call, after two uploads, and no job.
C2_Witness ==
    /\ last.op = "ScriptModeProcessor.run"
    /\ last.err = ProcessError
    /\ Len(UploadCalls) = 2
    /\ Len(SubmittedPayloads) = 1
    /\ calls[Len(calls)].op = "process"
    /\ processor.latest_job = None

(***************************************************************************)
(* C3. A ScriptModeProcessor.run that submits a job has uploaded the       *)
(* source to s3://<bucket>/<job name>/source for the job name of the       *)
(* submitted request, which is also the name of the ProcessingJob.         *)
(***************************************************************************)
C3_SourceUnderSubmittedJob ==
    (last.op = "ScriptModeProcessor.run" /\ SubmittedPayloads # <<>>) =>
        LET job_name == SubmittedPayloads[1].args.job_name
        IN  /\ UploadCalls # <<>>
            /\ UploadCalls[1].local_path = last.args.source
            /\ UploadCalls[1].desired_s3_uri =
                  C5_Location(job_name, <<"s", "o", "u", "r", "c", "e">>)
            /\ last.err # ProcessError => processor.latest_job[2].job_name = job_name

\* The last operation's submission has returned: process was called and did
\* not fail.
SubmissionReturned == SubmittedPayloads # <<>> /\ last.err # ProcessError

(***************************************************************************)
(* C11. After every operation the jobs of the processor are the jobs it    *)
(* had before, followed by one new job exactly if the operation's          *)
(* submission returned (also when the wait then failed); latest_job is     *)
(* None while there are no jobs, and is the last of the jobs otherwise.    *)
(***************************************************************************)
C11_JobHistoryAppendOnly ==
    /\ IF processor.jobs = <<>>
       THEN processor.latest_job = None
       ELSE processor.latest_job = processor.jobs[Len(processor.jobs)]
    /\ last.op \in RunOps =>
          /\ Len(processor.jobs) =
                Len(last.pre.processor.jobs) + (IF SubmissionReturned THEN 1 ELSE 0)
          /\ SubSeq(processor.jobs, 1, Len(last.pre.processor.jobs)) =
                last.pre.processor.jobs

\* A second run, whose wait fails after an earlier job: two jobs, the first
\* as it was.
C11_Witness ==
    /\ last.op \in RunOps
    /\ last.err = WaitError
    /\ Len(last.pre.processor.jobs) = 1
    /\ Len(processor.jobs) = 2
    /\ processor.jobs[1] = last.pre.processor.jobs[1]
    /\ processor.latest_job = processor.jobs[2]
    /\ processor.latest_job # processor.jobs[1]

\* The calls of the last operation that wait for a job, in order.
WaitCalls ==
    SelectSeq(calls, LAMBDA c : c.op \in {"logs_for_processing_job",
                                          "wait_for_processing_job"})

(***************************************************************************)
(* C12. A run with wait=False, or whose submission did not return, waits   *)
(* for no job. A run with wait=True whose submission returned makes one    *)
(* waiting call, as its last call, after the job was recorded: of          *)
(* logs_for_processing_job if logs=True and of wait_for_processing_job     *)
(* otherwise, for the name of the submitted job.                           *)
(***************************************************************************)
C12_WaitAfterSubmission ==
    last.op \in RunOps =>
        IF last.args.wait /\ SubmissionReturned
        THEN /\ Len(WaitCalls) = 1
             /\ calls[Len(calls)] = WaitCalls[1]
             /\ calls[Len(calls) - 1].op = "process"
             /\ WaitCalls[1].op = (IF last.args.logs THEN "logs_for_processing_job"
                                   ELSE "wait_for_processing_job")
             /\ WaitCalls[1].job_name = SubmittedPayloads[1].args.job_name
             /\ Len(processor.jobs) = Len(last.pre.processor.jobs) + 1
             /\ processor.latest_job[2].job_name = WaitCalls[1].job_name
        ELSE /\ WaitCalls = <<>>
             /\ last.err # WaitError

\* A run with wait=True and logs=False polls silently, after the submission.
C12_Witness ==
    /\ last.op \in RunOps
    /\ last.err = NoErr
    /\ last.args.wait
    /\ ~last.args.logs
    /\ Len(WaitCalls) = 1
    /\ WaitCalls[1].op = "wait_for_processing_job"
    /\ calls[Len(calls) - 1].op = "process"

C14_Given == IF last.args.inputs = None THEN <<>> ELSE last.pre.lists[last.args.inputs[2]]

(***************************************************************************)
(* C14. A ScriptModeProcessor.run leaves the caller's lists with the       *)
(* elements they had, also accepts inputs=None, and, when it submits, the  *)
(* inputs of the request are the caller's inputs in their order followed   *)
(* by one input named "source" with the local path /code/source, the       *)
(* only input of that name.                                                *)
(***************************************************************************)
C14_SourceAddedToNewList ==
    last.op = "ScriptModeProcessor.run" =>
        /\ lists = last.pre.lists
        /\ last.err # AttributeError_append
        /\ SubmittedPayloads # <<>> =>
              LET inputs == SubmittedPayloads[1].args.inputs
                  n == Len(C14_Given)
              IN  /\ Len(inputs) = n + 1
                  /\ \A i \in 1..n :
                        /\ inputs[i].S3Input.LocalPath =
                              last.pre.fileInputs[C14_Given[i][2]].destination
                        /\ inputs[i].InputName # <<"s", "o", "u", "r", "c", "e">>
                  /\ inputs[n + 1].InputName = <<"s", "o", "u", "r", "c", "e">>
                  /\ inputs[n + 1].S3Input.LocalPath =
                        <<"/", "c", "o", "d", "e", "/", "s", "o", "u", "r", "c", "e">>

(***************************************************************************)
(* C15. A ScriptModeProcessor.run whose source is an s3 URI does not call  *)
(* S3Uploader.upload for the source, and the "source" input of the         *)
(* request it submits has that URI.                                        *)
(***************************************************************************)
C15_RemoteSourceNotUploaded ==
    (last.op = "ScriptModeProcessor.run" /\ last.args.source \in C8_RemoteURIs) =>
        /\ \A k \in 1..Len(UploadCalls) : UploadCalls[k].local_path # last.args.source
        /\ SubmittedPayloads # <<>> =>
              LET inputs == SubmittedPayloads[1].args.inputs
              IN  inputs[Len(inputs)].S3Input.S3Uri = last.args.source

(***************************************************************************)
(* SpecJob: a Processor with a base job name runs jobs, with and without   *)
(* a job name, an input to upload and an output given as a str, and the    *)
(* caller waits for, describes and stops the jobs of the processor.        *)
(***************************************************************************)
InitJob ==
    /\ processor = Processor("Processor", None, None, None, BaseJobName, None)
    /\ fileInputs =
          <<FileInput(LocalData, ContainerIn, None, S3InputMode_FILE, S3CompressionType_NONE)>>
    /\ fileOutputs = <<>>
    /\ lists = << <<FileInputRef(1)>> >>
    /\ clock = 1
    /\ calls = <<>>
    /\ last = NoOp
    /\ ops = 0

NextJob ==
    \/ Run({None, ListRef(1)}, {None, ListOf(<<ContainerOut>>)},
           {[wait |-> TRUE, logs |-> TRUE], [wait |-> TRUE, logs |-> FALSE],
            [wait |-> FALSE, logs |-> TRUE]},
           {None, JobName}, {NoFailure, [NoFailure EXCEPT !.waitFails = TRUE]})
    \/ JobWait(BOOLEAN, {NoFailure, [NoFailure EXCEPT !.waitFails = TRUE]})
    \/ JobDescribe(BOOLEAN)
    \/ JobStop

SpecJob == InitJob /\ [][NextJob]_vars

JobOps == {"ProcessingJob.wait", "ProcessingJob.describe", "ProcessingJob.stop"}

\* s3://<bucket>/<job name>/
C16_Namespace(job_name) == S3Root \o DefaultBucket \o <<"/">> \o job_name \o <<"/">>

\* s starts with p
C16_StartsWith(s, p) == Len(s) >= Len(p) /\ SubSeq(s, 1, Len(p)) = p

(***************************************************************************)
(* C16. A Processor.run generates a name at most once, and only if the     *)
(* caller gave none; the caller's name, or else the generated one, is the  *)
(* processor's current job name, the namespace of every upload and of      *)
(* every default output destination of the run, the job_name of the        *)
(* request, the name of the new job and the name waited for. wait,         *)
(* describe and stop on a job call their collaborator once, with the       *)
(* job's name, and change neither the jobs nor any FileInput or            *)
(* FileOutput.                                                             *)
(***************************************************************************)
C16_OneJobNamePerRun ==
    /\ last.op = "Processor.run" =>
          LET name == processor._current_job_name
          IN  /\ name # None
              /\ last.args.job_name # None => name = last.args.job_name
              /\ clock = last.pre.clock + (IF last.args.job_name = None THEN 1 ELSE 0)
              /\ \A k \in 1..Len(UploadCalls) :
                    C16_StartsWith(UploadCalls[k].desired_s3_uri, C16_Namespace(name))
              /\ \A i \in (Len(last.pre.fileOutputs) + 1)..Len(fileOutputs) :
                    fileOutputs[i].destination = C16_Namespace(name) \o StrOutput
              /\ \A k \in 1..Len(SubmittedPayloads) :
                    SubmittedPayloads[k].args.job_name = name
              /\ SubmissionReturned => processor.latest_job[2].job_name = name
              /\ \A k \in 1..Len(WaitCalls) : WaitCalls[k].job_name = name
    /\ last.op \in JobOps =>
          LET self == last.pre.processor.jobs[last.args.self]
          IN  /\ Len(calls) = 1
              /\ calls[1].job_name = self[2].job_name
              /\ calls[1].op =
                    (CASE last.op = "ProcessingJob.stop" -> "stop_processing_job"
                       [] last.op = "ProcessingJob.describe" -> "describe_analytics_job"
                       [] last.op = "ProcessingJob.wait" ->
                             IF last.args.logs THEN "logs_for_processing_job"
                             ELSE "wait_for_processing_job")
              /\ processor = last.pre.processor
              /\ fileInputs = last.pre.fileInputs
              /\ fileOutputs = last.pre.fileOutputs

\* stop on the job of a run that generated its name.
C16_Witness ==
    /\ last.op = "ProcessingJob.stop"
    /\ calls = <<[op |-> "stop_processing_job",
                  job_name |-> <<"b", "a", "s", "e", "-", "1">>]>>
    /\ processor.jobs[1][2].job_name = <<"b", "a", "s", "e", "-", "1">>
    /\ Len(processor.jobs[1][2].inputs) = 1
    /\ Len(processor.jobs[1][2].outputs) = 1
    /\ fileOutputs[1].destination =
          <<"s", "3", ":", "/", "/", "b", "k", "t", "/", "b", "a", "s", "e", "-", "1", "/",
            "o", "u", "t", "p", "u", "t">>

====
